---- MODULE Spec2Model ----
(***************************************************************************)
(* A model of the derivation-chain reconstruction (analysis/edit_paths.py) *)
(* and of the pairwise semantic classification                             *)
(* (analysis/semantic_comparison.py) of smt-metrics.                       *)
(*                                                                         *)
(* Three state machines share the module, each with its own variables and  *)
(* its own specification; a specification holds the variables of the other *)
(* machines at their idle values.                                          *)
(*   SpecChain     fmp_smt_longest_chain_overview                          *)
(*   SpecClassify  check_semantic_comparison over check_z3_smt2            *)
(*   SpecPass      write_semanttic_comparison_results and the four         *)
(*                 save_non_consecutive_*_pairs passes                     *)
(***************************************************************************)
EXTENDS Integers, Sequences, FiniteSets, TLC

(***************************************************************************)
(* Bounds.                                                                 *)
(***************************************************************************)
\* Script ids are 0..MaxId.  Id 0 never has a row of its own: it is a parent
\* that is referenced without being a key of the edge table.
MaxId == 3
\* The solver's stdout holds at most this many lines.
MaxOutLines == 2
\* The chain reconstruction is run at most MaxRuns times on the same input.
MaxRuns == 2
\* The chain list read by a pass holds at most NChains rows, each a chain of
\* 1..MaxChainLen scripts.
NChains == 2
MaxChainLen == 4
\* The passes save intermediate results when their counter is a multiple of 50
\* (semantic_comparison.py:137, 255, 326, 397, 468); the model scales the
\* period down so that a save happens within the bounded chain list.
FlushEvery == 2
\* list_files finds at most MaxFiles scripts.
MaxFiles == 4
\* batch_size: 100 in the source (script_runner.py:168), scaled down.
BatchSize == 2
\* A chain of the status pass holds at most MaxStatusLen scripts.
MaxStatusLen == 4

VARIABLES
    \* ---- fmp_smt_longest_chain_overview ----
    derivation_map,   \* id -> parent text, one entry per row of the input
    artifacts,        \* ids whose file data/spec/<id>.smt2 exists
    all_chains,       \* the chains built so far, one per row, in row order
    longest_chains,   \* the chains kept by the containment filter
    out_file,         \* the rows written to the output file
    cpc,              \* "build" | "filter" | "write" | "done"
    runs,             \* how many times the reconstruction was started
    prev_file,        \* the output file as the run before this one left it
    \* ---- check_semantic_comparison ----
    readable,         \* [A, B]: the script can be read and parsed
    answer,           \* [AB, BA]: what the solver run does on the formula
                      \*   AB = F_A and not F_B,  BA = F_B and not F_A
    label,            \* [AB, BA]: result of check_semantic_comparison(A, B)
                      \*   and of check_semantic_comparison(B, A), or "none"
    \* ---- the consecutive pass and the non-consecutive passes ----
    pass,             \* "consecutive", or the target label of the pass
    nrows,            \* number of rows of the chain list
    ppc,              \* "chain" | "pair" | "scan" | "direct" | "append" |
                      \*   "done" | "aborted" (an exception left the pass)
    ci,               \* number of rows the chain loop is through with
    chain,            \* row["derivation_chain"] of the current row
    check_err,        \* scripts of the chain whose check record holds "ERROR"
    present,          \* scripts of the chain whose file data/spec/<id>.smt2 exists
    pi, pj, pk,       \* loop indices i, j and k (0-based as in the source)
    skip,             \* the flag skip of the non-consecutive passes
    inter_results,    \* the values inter_result took in the current k loop
    sem_results,      \* consecutive pass: sem_results of the current chain
    count, pairs,     \* non-consecutive pass: count and pairs of the chain
    results,          \* result_rows / results
    write_counter,    \* saving_counter / write_counter
    csv,              \* the rows of the output file as last written
    last,             \* what the last execution of the loop body did
    \* ---- script_runner ----
    smt_files,        \* list_files("data/code/")
    worker,           \* per file: what its worker process ends with
    rpc,              \* "start" | "batch" | "wait" | "write" | "done" | "exit"
    bi,               \* the index i of the batch loop
    futures,          \* files of the batch whose future is not yet through
    batch_results,    \* results of the current batch
    wi,               \* rows of batch_results written by write_to_csv so far
    output_csv,       \* the lines of the output CSV
    dispatched,       \* files submitted to the executor so far
    interrupted,      \* KeyboardInterrupt has been raised
    \* ---- steps_to_fix ----
    s_chain,          \* row["derivation_chain"] of the row being processed
    check_map,        \* per script of the chain: check_map.get(spec_path, [])
    fpc,              \* "status" | "row" | "steps" | "done"
    si,               \* the index i of the loop over the chain
    status_chain,     \* status_chain of the row being processed
    status_csv,       \* the rows of results/fmp_edit_paths_status.csv
    fix_csv           \* the rows of results/fmp_steps_to_fix.csv

chainVars == <<derivation_map, artifacts, all_chains, longest_chains, out_file, cpc,
               runs, prev_file>>
classifyVars == <<readable, answer, label>>
passVars == <<pass, nrows, ppc, ci, chain, check_err, present, pi, pj, pk, skip,
              inter_results, sem_results, count, pairs, results, write_counter, csv, last>>
runnerVars == <<smt_files, worker, rpc, bi, futures, batch_results, wi, output_csv,
                dispatched, interrupted>>
stepsVars == <<s_chain, check_map, fpc, si, status_chain, status_csv, fix_csv>>
vars == <<chainVars, classifyVars, passVars, runnerVars, stepsVars>>

(***************************************************************************)
(* Chain reconstruction: edit_paths.py, fmp_smt_longest_chain_overview.    *)
(***************************************************************************)
Ids == 0..MaxId
RowIds == 1..MaxId
\* str(x) of a null parent is the text "nan"; a parent may also be the empty
\* text.  Both are encoded as numbers outside Ids so that they compare with ids.
NaN == MaxId + 1
Empty == MaxId + 2
ParentVals == Ids \cup {NaN, Empty}

\* os.path.exists(f"data/spec/{next_id}.smt2")
FileExists(id) == id \in artifacts

\* file_path.endswith("nan.smt2")
EndsWithNan(id) == id = NaN

\* The guard of the while loop.
WalkGuardNextVisited(current, visited) ==
    /\ current \in DOMAIN derivation_map
    /\ current \notin visited
    /\ derivation_map[current] \notin visited \cup {current}

WalkGuard(current, visited) ==
    /\ current \in DOMAIN derivation_map
    /\ current \notin visited

\* The node is left out of the chain (and the walk goes on from it).
SkipNodeAlways(next_id) == FALSE

SkipNode(next_id) == (~FileExists(next_id)) /\ (~EndsWithNan(next_id))

\* The while loop of get_derivation_chain, from the state (c, current,
\* visited) to the chain it returns.
RECURSIVE Walk(_, _, _)
Walk(c, current, visited) ==
    IF ~WalkGuard(current, visited) THEN c
    ELSE LET next_id == derivation_map[current] IN
         IF next_id = Empty THEN c
         ELSE IF SkipNode(next_id)
              THEN Walk(c, next_id, visited \cup {current})
              ELSE Walk(Append(c, next_id), next_id, visited \cup {current})

get_derivation_chain(start_id) == Walk(<<start_id>>, start_id, {})

\* The same loop, from its state after n iterations to the way it ends: how
\* many iterations were begun, the last values of current and visited, and
\* whether the loop ended on its guard or on the break for an empty parent.
RECURSIVE WalkEnd(_, _, _)
WalkEnd(n, current, visited) ==
    IF ~WalkGuard(current, visited)
    THEN [iterations |-> n, current |-> current, visited |-> visited, by |-> "guard"]
    ELSE LET next_id == derivation_map[current] IN
         IF next_id = Empty
         THEN [iterations |-> n + 1, current |-> current,
               visited |-> visited \cup {current}, by |-> "break"]
         ELSE WalkEnd(n + 1, next_id, visited \cup {current})

\* The rows of the data frame, in file order: the keys in increasing order.
RECURSIVE RowsOf(_)
RowsOf(S) ==
    IF S = {} THEN <<>>
    ELSE LET m == CHOOSE x \in S : \A y \in S : x <= y
         IN <<m>> \o RowsOf(S \ {m})

Rows == RowsOf(DOMAIN derivation_map)

SetOf(c) == {c[p] : p \in 1..Len(c)}

\* any(set(chain).issubset(set(other_chain)) and chain != other_chain ...)
ContainedNever(c, chains) == FALSE

Contained(c, chains) ==
    \E q \in 1..Len(chains) :
        SetOf(c) \subseteq SetOf(chains[q]) /\ c # chains[q]

RECURSIVE FilterFrom(_, _)
FilterFrom(p, chains) ==
    IF p > Len(chains) THEN <<>>
    ELSE (IF Contained(chains[p], chains) THEN <<>> ELSE <<chains[p]>>)
         \o FilterFrom(p + 1, chains)

FilterLongest(chains) == FilterFrom(1, chains)

ChainInit ==
    /\ \E K \in SUBSET RowIds : derivation_map \in [K -> ParentVals]
    /\ artifacts \in SUBSET Ids
    /\ all_chains = <<>>
    /\ longest_chains = <<>>
    /\ out_file = <<>>
    /\ cpc = "build"
    /\ runs = 1
    /\ prev_file = <<>>

ChainIdle ==
    /\ derivation_map = <<>>
    /\ artifacts = {}
    /\ all_chains = <<>>
    /\ longest_chains = <<>>
    /\ out_file = <<>>
    /\ cpc = "idle"
    /\ runs = 0
    /\ prev_file = <<>>

OpenAndAppend(old, rows) == old \o rows

\* with open(output_file, "w") as f: the rows replace what the file held.
OpenAndWrite(old, rows) == rows

\* One iteration of "for _, row in df.iterrows()".
BuildChain ==
    /\ cpc = "build"
    /\ Len(all_chains) < Len(Rows)
    /\ all_chains' = Append(all_chains, get_derivation_chain(Rows[Len(all_chains) + 1]))
    /\ UNCHANGED <<derivation_map, artifacts, longest_chains, out_file, cpc, runs,
                   prev_file>>
    /\ UNCHANGED <<classifyVars, passVars, runnerVars, stepsVars>>

\* The loop is over.
BuildDone ==
    /\ cpc = "build"
    /\ Len(all_chains) = Len(Rows)
    /\ cpc' = "filter"
    /\ UNCHANGED <<derivation_map, artifacts, all_chains, longest_chains, out_file,
                   runs, prev_file>>
    /\ UNCHANGED <<classifyVars, passVars, runnerVars, stepsVars>>

\* "Remove chains that are subsequences of longer chains".
FilterChains ==
    /\ cpc = "filter"
    /\ longest_chains' = FilterLongest(all_chains)
    /\ cpc' = "write"
    /\ UNCHANGED <<derivation_map, artifacts, all_chains, out_file, runs, prev_file>>
    /\ UNCHANGED <<classifyVars, passVars, runnerVars, stepsVars>>

\* The header and one row {id, chain_length, derivation_chain} per chain.
WriteChains ==
    /\ cpc = "write"
    /\ out_file' = OpenAndWrite(out_file,
                                [p \in 1..Len(longest_chains) |->
                                    [id |-> longest_chains[p][1],
                                     chain_length |-> Len(longest_chains[p]),
                                     derivation_chain |-> longest_chains[p]]])
    /\ cpc' = "done"
    /\ UNCHANGED <<derivation_map, artifacts, all_chains, longest_chains, runs,
                   prev_file>>
    /\ UNCHANGED <<classifyVars, passVars, runnerVars, stepsVars>>

\* The function is called again on the same input: the file of the run before
\* is still there, the locals are new.
Rerun ==
    /\ cpc = "done"
    /\ runs < MaxRuns
    /\ runs' = runs + 1
    /\ prev_file' = out_file
    /\ all_chains' = <<>>
    /\ longest_chains' = <<>>
    /\ cpc' = "build"
    /\ UNCHANGED <<derivation_map, artifacts, out_file>>
    /\ UNCHANGED <<classifyVars, passVars, runnerVars, stepsVars>>

(***************************************************************************)
(* Oracle and classifier: semantic_comparison.py.                          *)
(***************************************************************************)
Tokens == {"sat", "unsat", "unknown", "error"}

RECURSIVE SeqsUpTo(_, _)
SeqsUpTo(S, n) ==
    IF n = 0 THEN {<<>>}
    ELSE LET prev == SeqsUpTo(S, n - 1)
         IN prev \cup {Append(s, x) : s \in {t \in prev : Len(t) = n - 1}, x \in S}

\* What one run of the solver process does: it completes with some lines on
\* stdout, it exceeds TIMEOUT, or starting it or talking to it raises.
Runs ==
    [kind : {"completed"}, stdout : SeqsUpTo(Tokens, MaxOutLines)]
    \cup {[kind |-> "timeout", stdout |-> <<>>], [kind |-> "raises", stdout |-> <<>>]}

\* Texts are sequences of lines; "sat" is <<"sat">>.  stdout.strip() of a
\* sequence of non-empty lines is the sequence itself.
TimeoutAsUnsat == <<"unsat">>

TimeoutResult == <<"TO">>

ErrorResult == <<"ERROR: e">>

check_z3_smt2(run) ==
    CASE run.kind = "completed" -> run.stdout
      [] run.kind = "timeout" -> TimeoutResult
      [] OTHER -> ErrorResult

\* The if/elif chain over (res_s1not2, res_s2not1).
DecisionSwapped(r1, r2) ==
    IF r1 = <<"unsat">> /\ r2 = <<"unsat">> THEN "equivalent"
    ELSE IF r1 = <<"sat">> /\ r2 = <<"sat">> THEN "incomparable"
    ELSE IF r1 = <<"unsat">> /\ r2 = <<"sat">> THEN "s2_refines_s1"
    ELSE IF r1 = <<"sat">> /\ r2 = <<"unsat">> THEN "s2_refines_s1"
    ELSE "unknown"

DecisionNoRefine2(r1, r2) ==
    IF r1 = <<"unsat">> /\ r2 = <<"unsat">> THEN "equivalent"
    ELSE IF r1 = <<"sat">> /\ r2 = <<"sat">> THEN "incomparable"
    ELSE IF r1 = <<"unsat">> /\ r2 = <<"sat">> THEN "s1_refines_s2"
    ELSE "unknown"

Decision(r1, r2) ==
    IF r1 = <<"unsat">> /\ r2 = <<"unsat">> THEN "equivalent"
    ELSE IF r1 = <<"sat">> /\ r2 = <<"sat">> THEN "incomparable"
    ELSE IF r1 = <<"unsat">> /\ r2 = <<"sat">> THEN "s1_refines_s2"
    ELSE IF r1 = <<"sat">> /\ r2 = <<"unsat">> THEN "s2_refines_s1"
    ELSE "unknown"

\* check_semantic_comparison: ok1, ok2 say that spec_1, spec_2 can be read and
\* parsed (otherwise open or parse_smt2_string raises and the except clauses
\* return "Z3_ERROR"); run1, run2 are the solver runs on s1not2 and s2not1.
ExceptPropagates == "RAISED"

ExceptClauses == "Z3_ERROR"

check_semantic_comparison(ok1, ok2, run1, run2) ==
    IF ~(ok1 /\ ok2) THEN ExceptClauses
    ELSE Decision(check_z3_smt2(run1), check_z3_smt2(run2))

ClassifyInit ==
    /\ readable \in [{"A", "B"} -> BOOLEAN]
    /\ answer \in [{"AB", "BA"} -> Runs]
    /\ label = [f \in {"AB", "BA"} |-> "none"]

ClassifyIdle ==
    /\ readable = <<>>
    /\ answer = <<>>
    /\ label = <<>>

\* check_semantic_comparison(A, B): s1not2 is the formula AB, s2not1 is BA.
CompareAB ==
    /\ label["AB"] = "none"
    /\ label' = [label EXCEPT !["AB"] =
                    check_semantic_comparison(readable["A"], readable["B"],
                                              answer["AB"], answer["BA"])]
    /\ UNCHANGED <<readable, answer>>
    /\ UNCHANGED <<chainVars, passVars, runnerVars, stepsVars>>

\* check_semantic_comparison(B, A): s1not2 is the formula BA, s2not1 is AB.
CompareBA ==
    /\ label["BA"] = "none"
    /\ label' = [label EXCEPT !["BA"] =
                    check_semantic_comparison(readable["B"], readable["A"],
                                              answer["BA"], answer["AB"])]
    /\ UNCHANGED <<readable, answer>>
    /\ UNCHANGED <<chainVars, passVars, runnerVars, stepsVars>>

(***************************************************************************)
(* The passes over the chain list: semantic_comparison.py,                 *)
(* write_semanttic_comparison_results (pass = "consecutive") and           *)
(* save_non_consecutive_<label>_pairs (pass = <label>).  The four          *)
(* non-consecutive passes are the same code up to the label they compare   *)
(* with and the file they write.                                           *)
(*                                                                         *)
(* The rows of the chain list are read one by one: a row's chain and the   *)
(* check records and files of its scripts are drawn when the loop reaches  *)
(* the row.  The scripts of a chain are named 1..n in chain order.  A      *)
(* script with an ERROR record whose file is also missing behaves in every *)
(* test below as one with an ERROR record, so check_err is drawn inside    *)
(* present.                                                                *)
(***************************************************************************)
TargetLabels == {"equivalent", "incomparable", "s1_refines_s2", "s2_refines_s1"}
Passes == {"consecutive"} \cup TargetLabels

ChainOf(n) == [p \in 1..n |-> p]

HasErrorNever(x) == FALSE

\* "ERROR" in check_map.get(b, [])
HasError(x) == x \in check_err

ExistsAlways(x) == TRUE

\* os.path.exists(spec)
Exists(x) == x \in present

\* What a call of check_semantic_comparison returns and did: its label, whether
\* the solver was queried, and whether one of the two solver runs timed out.
Outcome(ok, r1, r2) ==
    [label |-> check_semantic_comparison(ok, ok, r1, r2),
     oracle |-> ok,
     timeout |-> ok /\ (r1.kind = "timeout" \/ r2.kind = "timeout")]

AnyRun == CHOOSE r \in Runs : TRUE

\* A file cannot be opened, or a script cannot be parsed.
UnreadableReturns == {Outcome(FALSE, AnyRun, AnyRun)}

\* Both files exist: parsing may still fail, otherwise both queries are made.
ReadableReturns == {Outcome(TRUE, r1, r2) : r1, r2 \in Runs} \cup UnreadableReturns

CallReturns(x, y) ==
    IF Exists(x) /\ Exists(y) THEN ReadableReturns ELSE UnreadableReturns

\* The last call of check_semantic_comparison: for which candidate (i, j) it
\* was made, on which pair (x, y) of the chain, and what it returned and did.
NoCall == [kind |-> "none", i |-> 0, j |-> 0, x |-> 0, y |-> 0, label |-> "none",
           oracle |-> FALSE, timeout |-> FALSE]

Call(kind, i, j, x, y, r) ==
    [kind |-> kind, i |-> i, j |-> j, x |-> x, y |-> y, label |-> r.label,
     oracle |-> r.oracle, timeout |-> r.timeout]

NextCandidateFromAdjacent(n, i, j) ==
    IF j + 1 < n THEN <<i, j + 1>>
    ELSE IF i + 2 < n THEN <<i + 1, i + 2>>
    ELSE <<>>

\* The candidate after (i, j) in "for i in range(n): for j in range(i + 2, n)",
\* or <<>> when both loops are over.
NextCandidate(n, i, j) ==
    IF j + 1 < n THEN <<i, j + 1>>
    ELSE IF i + 3 < n THEN <<i + 1, i + 3>>
    ELSE <<>>

\* "continue" in the j loop, or the end of its body.
Advance ==
    LET nc == NextCandidate(Len(chain), pi, pj)
    IN IF nc = <<>>
       THEN ppc' = "append" /\ UNCHANGED <<pi, pj>>
       ELSE ppc' = "pair" /\ pi' = nc[1] /\ pj' = nc[2]

ScanStopShort(j) == j - 1

ScanFirstLate(i) == i + 2

\* range(i + 1, j)
ScanFirst(i) == i + 1
ScanStop(j) == j

\* inter_result == <label> / result == <label>
IsTargetNever(l) == FALSE

IsTargetOrUnknown(l) == l = pass \/ l = "unknown"

IsTarget(l) == l = pass

\* write_counter % 50 == 0
SaveDue(counter) == counter % FlushEvery = 0

\* pd.DataFrame(results).to_csv(...) inside the j loop: the rows written.
SnapshotWithCurrent(rows) ==
    Append(rows, [id |-> ci + 1, chain |-> chain, count |-> count', pairs |-> pairs'])

Snapshot(rows) == rows

PassInit ==
    /\ pass \in Passes
    /\ nrows \in 0..NChains
    /\ ppc = "chain"
    /\ ci = 0
    /\ chain = <<>>
    /\ check_err = {}
    /\ present = {}
    /\ pi = 0 /\ pj = 0 /\ pk = 0
    /\ skip = FALSE
    /\ inter_results = <<>>
    /\ sem_results = <<>>
    /\ count = 0
    /\ pairs = <<>>
    /\ results = <<>>
    /\ write_counter = 0
    /\ csv = <<>>
    /\ last = NoCall

PassIdle ==
    /\ pass = "idle"
    /\ nrows = 0
    /\ ppc = "idle"
    /\ ci = 0
    /\ chain = <<>>
    /\ check_err = {}
    /\ present = {}
    /\ pi = 0 /\ pj = 0 /\ pk = 0
    /\ skip = FALSE
    /\ inter_results = <<>>
    /\ sem_results = <<>>
    /\ count = 0
    /\ pairs = <<>>
    /\ results = <<>>
    /\ write_counter = 0
    /\ csv = <<>>
    /\ last = NoCall

\* An exception that check_semantic_comparison lets through ends the pass.
Abort(call) ==
    /\ ppc' = "aborted"
    /\ last' = call
    /\ UNCHANGED <<ci, chain, check_err, present, pi, pj, pk, skip, inter_results,
                   sem_results, count, pairs, results, write_counter, csv>>

\* ---- save_non_consecutive_<label>_pairs ----

\* Top of the chain loop: read the row, reset count and pairs, "if n < 3:
\* continue".
NCStartChain ==
    /\ pass \in TargetLabels
    /\ ppc = "chain"
    /\ ci < nrows
    /\ \E n \in 1..MaxChainLen : \E pres \in SUBSET (1..n) : \E err \in SUBSET pres :
          /\ chain' = ChainOf(n)
          /\ present' = pres
          /\ check_err' = err
          /\ IF n < 3
             THEN ci' = ci + 1 /\ ppc' = "chain" /\ UNCHANGED <<pi, pj>>
             ELSE ci' = ci /\ ppc' = "pair" /\ pi' = 0 /\ pj' = 2
    /\ count' = 0
    /\ pairs' = <<>>
    /\ last' = NoCall
    /\ UNCHANGED <<pass, nrows, pk, skip, inter_results, sem_results, results,
                   write_counter, csv>>
    /\ UNCHANGED <<chainVars, classifyVars, runnerVars, stepsVars>>

\* Top of the body of the j loop: the ERROR test on the two endpoints, then
\* skip = False and the first k.
NCPairStart ==
    /\ pass \in TargetLabels
    /\ ppc = "pair"
    /\ IF HasError(chain[pi + 1]) \/ HasError(chain[pj + 1])
       THEN Advance /\ UNCHANGED <<skip, pk, inter_results>>
       ELSE /\ skip' = FALSE
            /\ inter_results' = <<>>
            /\ pk' = ScanFirst(pi)
            /\ ppc' = IF ScanFirst(pi) < ScanStop(pj) THEN "scan" ELSE "direct"
            /\ UNCHANGED <<pi, pj>>
    /\ last' = NoCall
    /\ UNCHANGED <<pass, nrows, ci, chain, check_err, present, sem_results, count,
                   pairs, results, write_counter, csv>>
    /\ UNCHANGED <<chainVars, classifyVars, runnerVars, stepsVars>>

\* One iteration of the k loop on the adjacent pair (k - 1, k); a break is
\* followed by "if skip: continue".
NCScanStep ==
    /\ pass \in TargetLabels
    /\ ppc = "scan"
    /\ LET x == chain[pk]
           y == chain[pk + 1]
       IN IF (~Exists(x) \/ ~Exists(y)) \/ (HasError(x) \/ HasError(y))
          THEN /\ skip' = TRUE
               /\ Advance
               /\ last' = NoCall
               /\ UNCHANGED <<ci, pk, inter_results>>
          ELSE \E r \in CallReturns(x, y) :
                  IF r.label = "RAISED"
                  THEN Abort(Call("inter", pi, pj, pk - 1, pk, r))
                  ELSE /\ last' = Call("inter", pi, pj, pk - 1, pk, r)
                       /\ inter_results' = Append(inter_results, r.label)
                       /\ UNCHANGED ci
                       /\ IF IsTarget(r.label)
                          THEN skip' = TRUE /\ Advance /\ UNCHANGED pk
                          ELSE /\ pk' = pk + 1
                               /\ ppc' = IF pk + 1 < ScanStop(pj) THEN "scan" ELSE "direct"
                               /\ UNCHANGED <<skip, pi, pj>>
    /\ UNCHANGED <<pass, nrows, chain, check_err, present, sem_results, count, pairs,
                   results, write_counter, csv>>
    /\ UNCHANGED <<chainVars, classifyVars, runnerVars, stepsVars>>

\* The rest of the body: the direct comparison of (i, j), count and pairs, the
\* counter and the intermediate save.
NCDirect ==
    /\ pass \in TargetLabels
    /\ ppc = "direct"
    /\ \E r \in CallReturns(chain[pi + 1], chain[pj + 1]) :
          IF r.label = "RAISED"
          THEN Abort(Call("direct", pi, pj, pi, pj, r))
          ELSE /\ last' = Call("direct", pi, pj, pi, pj, r)
               /\ count' = IF IsTarget(r.label) THEN count + 1 ELSE count
               /\ pairs' = IF IsTarget(r.label) THEN Append(pairs, <<pi, pj>>) ELSE pairs
               /\ write_counter' = write_counter + 1
               /\ csv' = IF SaveDue(write_counter + 1) THEN Snapshot(results) ELSE csv
               /\ Advance
               /\ UNCHANGED <<ci, chain, check_err, present, pk, skip, inter_results,
                              sem_results, results>>
    /\ UNCHANGED <<pass, nrows>>
    /\ UNCHANGED <<chainVars, classifyVars, runnerVars, stepsVars>>

\* results.append({"id", "chain", "count", "pairs"}) after the two loops.
NCAppend ==
    /\ pass \in TargetLabels
    /\ ppc = "append"
    /\ results' = Append(results, [id |-> ci + 1, chain |-> chain,
                                   count |-> count, pairs |-> pairs])
    /\ ci' = ci + 1
    /\ ppc' = "chain"
    /\ last' = NoCall
    /\ UNCHANGED <<pass, nrows, chain, check_err, present, pi, pj, pk, skip,
                   inter_results, sem_results, count, pairs, write_counter, csv>>
    /\ UNCHANGED <<chainVars, classifyVars, runnerVars, stepsVars>>

\* ---- write_semanttic_comparison_results ----

\* Top of the chain loop: read the row; a chain of fewer than 2 scripts gets
\* its row with an empty list at once.
CStartChain ==
    /\ pass = "consecutive"
    /\ ppc = "chain"
    /\ ci < nrows
    /\ \E n \in 1..MaxChainLen : \E pres \in SUBSET (1..n) : \E err \in SUBSET pres :
          /\ chain' = ChainOf(n)
          /\ present' = pres
          /\ check_err' = err
          /\ IF n < 2
             THEN /\ results' = Append(results, [id |-> ci + 1, semantic_compare |-> <<>>])
                  /\ ci' = ci + 1
                  /\ ppc' = "chain"
             ELSE /\ ci' = ci
                  /\ ppc' = "pair"
                  /\ UNCHANGED results
    /\ sem_results' = <<>>
    /\ pi' = 0
    /\ last' = NoCall
    /\ UNCHANGED <<pass, nrows, pj, pk, skip, inter_results, count, pairs,
                   write_counter, csv>>
    /\ UNCHANGED <<chainVars, classifyVars, runnerVars, stepsVars>>

\* One iteration of "for i in range(len(chain) - 1)".
CPair ==
    /\ pass = "consecutive"
    /\ ppc = "pair"
    /\ LET x == chain[pi + 1]
           y == chain[pi + 2]
           after == IF pi + 1 < Len(chain) - 1 THEN "pair" ELSE "append"
       IN IF HasError(x) \/ HasError(y)
          THEN /\ sem_results' = Append(sem_results, "ERROR")
               /\ last' = NoCall
               /\ pi' = pi + 1
               /\ ppc' = after
          ELSE IF Exists(x) /\ Exists(y)
          THEN \E r \in CallReturns(x, y) :
                  IF r.label = "RAISED"
                  THEN /\ ppc' = "aborted"
                       /\ last' = Call("direct", pi, pi + 1, pi, pi + 1, r)
                       /\ UNCHANGED <<sem_results, pi>>
                  ELSE /\ sem_results' = Append(sem_results, r.label)
                       /\ last' = Call("direct", pi, pi + 1, pi, pi + 1, r)
                       /\ pi' = pi + 1
                       /\ ppc' = after
          ELSE /\ UNCHANGED sem_results
               /\ last' = NoCall
               /\ pi' = pi + 1
               /\ ppc' = after
    /\ UNCHANGED <<pass, nrows, ci, chain, check_err, present, pj, pk, skip,
                   inter_results, count, pairs, results, write_counter, csv>>
    /\ UNCHANGED <<chainVars, classifyVars, runnerVars, stepsVars>>

\* result_rows.append, saving_counter += 1 and the intermediate save.
CAppend ==
    /\ pass = "consecutive"
    /\ ppc = "append"
    /\ results' = Append(results, [id |-> ci + 1, semantic_compare |-> sem_results])
    /\ write_counter' = write_counter + 1
    /\ csv' = IF SaveDue(write_counter + 1) THEN results' ELSE csv
    /\ ci' = ci + 1
    /\ ppc' = "chain"
    /\ last' = NoCall
    /\ UNCHANGED <<pass, nrows, chain, check_err, present, pi, pj, pk, skip,
                   inter_results, sem_results, count, pairs>>
    /\ UNCHANGED <<chainVars, classifyVars, runnerVars, stepsVars>>

\* The chain loop is over: the final to_csv.
FinalSave ==
    /\ pass \in Passes
    /\ ppc = "chain"
    /\ ci = nrows
    /\ csv' = results
    /\ ppc' = "done"
    /\ last' = NoCall
    /\ UNCHANGED <<pass, nrows, ci, chain, check_err, present, pi, pj, pk, skip,
                   inter_results, sem_results, count, pairs, results, write_counter>>
    /\ UNCHANGED <<chainVars, classifyVars, runnerVars, stepsVars>>

(***************************************************************************)
(* The bulk solver check: script_runner.py, script_runner.                 *)
(*                                                                         *)
(* The files are named 1..n in the order of list_files.  A worker process  *)
(* ends with the check result of its file, or dies, in which case          *)
(* future.result() raises.  KeyboardInterrupt reaches the main process     *)
(* between two steps of the try block, the rows of write_to_csv included.  *)
(***************************************************************************)
WorkerOutcomes == {"sat", "ERROR", "died"}

\* The line written by writer.writeheader(); the files are 1..n.
Header == [file |-> 0, check |-> "header"]

\* The dict returned by process_smt_file.
Row(f) == [file |-> f, check |-> worker[f]]

\* A file left by an earlier run.
StaleCsv == <<Header, [file |-> 1, check |-> "unsat"]>>

write_to_csv_truncating(old, rows, mode) == <<Header>> \o rows

\* write_to_csv(file_path, results, mode)
write_to_csv(old, rows, mode) ==
    IF mode = "w" THEN <<Header>> \o rows ELSE old \o rows

\* batch = smt_files[i : i + batch_size]
Batch(i) == {smt_files[p] : p \in (i + 1)..(IF i + BatchSize < Len(smt_files)
                                             THEN i + BatchSize
                                             ELSE Len(smt_files))}

OnInterruptResume == "batch"

\* except KeyboardInterrupt: executor.shutdown(...); sys.exit(1)
OnInterrupt == "exit"

RunnerInit ==
    /\ \E n \in 0..MaxFiles :
          /\ smt_files = [p \in 1..n |-> p]
          /\ worker \in [1..n -> WorkerOutcomes]
    /\ rpc = "start"
    /\ bi = 0
    /\ futures = {}
    /\ batch_results = <<>>
    /\ wi = 0
    /\ output_csv \in {<<>>, StaleCsv}
    /\ dispatched = {}
    /\ interrupted = FALSE

RunnerIdle ==
    /\ smt_files = <<>>
    /\ worker = <<>>
    /\ rpc = "idle"
    /\ bi = 0
    /\ futures = {}
    /\ batch_results = <<>>
    /\ wi = 0
    /\ output_csv = <<>>
    /\ dispatched = {}
    /\ interrupted = FALSE

\* write_to_csv(output_csv, [], mode="w")
RunnerHeader ==
    /\ rpc = "start"
    /\ output_csv' = write_to_csv(output_csv, <<>>, "w")
    /\ rpc' = "batch"
    /\ UNCHANGED <<smt_files, worker, bi, futures, batch_results, wi, dispatched,
                   interrupted>>
    /\ UNCHANGED <<chainVars, classifyVars, passVars, stepsVars>>

\* Top of the batch loop: results = [] and the submission of the batch.
SubmitBatch ==
    /\ rpc = "batch"
    /\ bi < Len(smt_files)
    /\ batch_results' = <<>>
    /\ futures' = Batch(bi)
    /\ dispatched' = dispatched \cup Batch(bi)
    /\ wi' = 0
    /\ rpc' = "wait"
    /\ UNCHANGED <<smt_files, worker, bi, output_csv, interrupted>>
    /\ UNCHANGED <<chainVars, classifyVars, passVars, stepsVars>>

\* One iteration of "for future in as_completed(futures)": any future that is
\* still out may be the next to complete.
Complete ==
    /\ rpc = "wait"
    /\ \E f \in futures :
          /\ futures' = futures \ {f}
          /\ batch_results' = IF worker[f] = "died"
                              THEN batch_results
                              ELSE Append(batch_results, Row(f))
    /\ UNCHANGED <<smt_files, worker, rpc, bi, wi, output_csv, dispatched, interrupted>>
    /\ UNCHANGED <<chainVars, classifyVars, passVars, stepsVars>>

\* The end of the with block and "if results:".
BatchCollected ==
    /\ rpc = "wait"
    /\ futures = {}
    /\ IF batch_results # <<>>
       THEN rpc' = "write" /\ wi' = 0 /\ UNCHANGED bi
       ELSE rpc' = "batch" /\ bi' = bi + BatchSize /\ UNCHANGED wi
    /\ UNCHANGED <<smt_files, worker, futures, batch_results, output_csv, dispatched,
                   interrupted>>
    /\ UNCHANGED <<chainVars, classifyVars, passVars, stepsVars>>

\* write_to_csv(output_csv, results, mode="a"): one writer.writerow.
WriteRow ==
    /\ rpc = "write"
    /\ wi < Len(batch_results)
    /\ output_csv' = write_to_csv(output_csv, <<batch_results[wi + 1]>>, "a")
    /\ wi' = wi + 1
    /\ IF wi + 1 = Len(batch_results)
       THEN rpc' = "batch" /\ bi' = bi + BatchSize
       ELSE UNCHANGED <<rpc, bi>>
    /\ UNCHANGED <<smt_files, worker, futures, batch_results, dispatched, interrupted>>
    /\ UNCHANGED <<chainVars, classifyVars, passVars, stepsVars>>

\* The batch loop is over.
RunnerDone ==
    /\ rpc = "batch"
    /\ bi >= Len(smt_files)
    /\ rpc' = "done"
    /\ UNCHANGED <<smt_files, worker, bi, futures, batch_results, wi, output_csv,
                   dispatched, interrupted>>
    /\ UNCHANGED <<chainVars, classifyVars, passVars, stepsVars>>

\* KeyboardInterrupt inside the try block: the with block waits for the
\* workers that are out, whose results are dropped, then the handler exits.
KeyboardInterrupt ==
    /\ rpc \in {"batch", "wait", "write"}
    /\ ~interrupted
    /\ interrupted' = TRUE
    /\ futures' = {}
    /\ rpc' = OnInterrupt
    /\ UNCHANGED <<smt_files, worker, bi, batch_results, wi, output_csv, dispatched>>
    /\ UNCHANGED <<chainVars, classifyVars, passVars, stepsVars>>

(***************************************************************************)
(* Status chains and steps to fix: steps_to_fix.py.                        *)
(*                                                                         *)
(* One row of the chain list is followed from create_status_chain_csv to   *)
(* save_steps_to_fix_csv; the scripts of its chain are named 1..n in chain *)
(* order.  Lists are indexed from 0 in the source and from 1 here: the     *)
(* operators below take and return the indices of the source.              *)
(***************************************************************************)
\* The check records a script can have: no check-sat, one outcome, several.
CheckRecords ==
    {<<>>, <<"sat">>, <<"unsat">>, <<"unknown">>, <<"ERROR">>,
     <<"sat", "sat">>, <<"sat", "unsat">>, <<"ERROR", "sat">>}

Statuses == {"SAT", "UNSAT", "ERROR", "NO_CHECK", "MULTIPLE_CHECKS"}

\* The body of "for i in range(len(chain))": what is appended to status_chain
\* for a check record.
StatusAppended(check_res) ==
    IF Len(check_res) = 0 THEN <<"NO_CHECK">>
    ELSE IF Len(check_res) = 1
    THEN (IF check_res[1] = "ERROR" THEN <<"ERROR">>
          ELSE IF check_res[1] = "sat" THEN <<"SAT">>
          ELSE IF check_res[1] = "unsat" THEN <<"UNSAT">>
          ELSE <<>>)
    ELSE <<"MULTIPLE_CHECKS">>

\* while i + 1 < len(status_chain) and status_chain[i + 1] == v: i += 1
RECURSIVE SkipRun(_, _, _)
SkipRun(sc, i, v) ==
    IF i + 1 < Len(sc) /\ sc[i + 2] = v THEN SkipRun(sc, i + 1, v) ELSE i

\* for j in range(from, len(status_chain)): the first j whose status equals v
\* (eq) or differs from v (~eq), or -1 when the loop ends without break.
RECURSIVE FirstFrom(_, _, _, _)
FirstFrom(sc, j, v, eq) ==
    IF j >= Len(sc) THEN -1
    ELSE IF (sc[j + 1] = v) = eq THEN j
    ELSE FirstFrom(sc, j + 1, v, eq)

SyntaxEntryFromLast(start, i, j) == j - i

\* steps.append(j - start)
SyntaxEntry(start, i, j) == j - start

UnsatEntryFromStart(start, i, j) == j - start

\* steps.append(j - i)
UnsatEntry(start, i, j) == j - i

\* The outer while loop of calculate_syntaxerror_fix_steps from index i on.
RECURSIVE SyntaxLoop(_, _, _)
SyntaxLoop(sc, i, steps) ==
    IF i >= Len(sc) THEN steps
    ELSE IF sc[i + 1] = "ERROR"
    THEN LET e == SkipRun(sc, i, "ERROR")
             j == FirstFrom(sc, e + 1, "ERROR", FALSE)
         IN SyntaxLoop(sc, e + 1,
                       IF j >= 0 THEN Append(steps, SyntaxEntry(i, e, j)) ELSE steps)
    ELSE SyntaxLoop(sc, i + 1, steps)

calculate_syntaxerror_fix_steps(sc) == SyntaxLoop(sc, 0, <<>>)

\* The outer while loop of calculate_unsat_to_sat_steps from index i on.
RECURSIVE UnsatLoop(_, _, _)
UnsatLoop(sc, i, steps) ==
    IF i >= Len(sc) THEN steps
    ELSE IF sc[i + 1] = "UNSAT"
    THEN LET e == SkipRun(sc, i, "UNSAT")
             j == FirstFrom(sc, e + 1, "SAT", TRUE)
         IN UnsatLoop(sc, e + 1,
                      IF j >= 0 THEN Append(steps, UnsatEntry(i, e, j)) ELSE steps)
    ELSE UnsatLoop(sc, i + 1, steps)

calculate_unsat_to_sat_steps(sc) == UnsatLoop(sc, 0, <<>>)

StepsInit ==
    /\ \E n \in 0..MaxStatusLen :
          /\ s_chain = [m \in 1..n |-> m]
          /\ check_map \in [1..n -> CheckRecords]
    /\ fpc = "status"
    /\ si = 0
    /\ status_chain = <<>>
    /\ status_csv = <<>>
    /\ fix_csv = <<>>

StepsIdle ==
    /\ s_chain = <<>>
    /\ check_map = <<>>
    /\ fpc = "idle"
    /\ si = 0
    /\ status_chain = <<>>
    /\ status_csv = <<>>
    /\ fix_csv = <<>>

\* One iteration of "for i in range(len(chain))" of create_status_chain_csv.
StatusStep ==
    /\ fpc = "status"
    /\ si < Len(s_chain)
    /\ status_chain' = status_chain \o StatusAppended(check_map[s_chain[si + 1]])
    /\ si' = si + 1
    /\ UNCHANGED <<s_chain, check_map, fpc, status_csv, fix_csv>>
    /\ UNCHANGED <<chainVars, classifyVars, passVars, runnerVars>>

\* result_rows.append(...) after the loop, and the to_csv of the rows.
StatusRow ==
    /\ fpc = "status"
    /\ si = Len(s_chain)
    /\ status_csv' = Append(status_csv, [id |-> 1, derivation_chain |-> s_chain,
                                         status_chain |-> status_chain])
    /\ fpc' = "steps"
    /\ UNCHANGED <<s_chain, check_map, si, status_chain, fix_csv>>
    /\ UNCHANGED <<chainVars, classifyVars, passVars, runnerVars>>

\* save_steps_to_fix_csv: the two columns computed from the status chains.
SaveSteps ==
    /\ fpc = "steps"
    /\ fix_csv' = [m \in 1..Len(status_csv) |->
                     [id |-> status_csv[m].id,
                      status_chain |-> status_csv[m].status_chain,
                      parseerror_fix_steps |->
                          calculate_syntaxerror_fix_steps(status_csv[m].status_chain),
                      unsat_to_sat_steps |->
                          calculate_unsat_to_sat_steps(status_csv[m].status_chain)]]
    /\ fpc' = "done"
    /\ UNCHANGED <<s_chain, check_map, si, status_chain, status_csv>>
    /\ UNCHANGED <<chainVars, classifyVars, passVars, runnerVars>>

(***************************************************************************)
(* Specifications.                                                         *)
(***************************************************************************)
InitChain == ChainInit /\ ClassifyIdle /\ PassIdle /\ RunnerIdle /\ StepsIdle
NextChain == BuildChain \/ BuildDone \/ FilterChains \/ WriteChains \/ Rerun
SpecChain == InitChain /\ [][NextChain]_vars

InitClassify == ClassifyInit /\ ChainIdle /\ PassIdle /\ RunnerIdle /\ StepsIdle
NextClassify == CompareAB \/ CompareBA
SpecClassify == InitClassify /\ [][NextClassify]_vars

InitPass == PassInit /\ ChainIdle /\ ClassifyIdle /\ RunnerIdle /\ StepsIdle
NextPass ==
    \/ NCStartChain \/ NCPairStart \/ NCScanStep \/ NCDirect \/ NCAppend
    \/ CStartChain \/ CPair \/ CAppend
    \/ FinalSave
SpecPass == InitPass /\ [][NextPass]_vars

\* The interpreter runs the pass to its end: a step that can be taken is taken.
FairSpecPass == SpecPass /\ WF_vars(NextPass)

InitRunner == RunnerInit /\ ChainIdle /\ ClassifyIdle /\ PassIdle /\ StepsIdle
NextRunner ==
    \/ RunnerHeader \/ SubmitBatch \/ Complete \/ BatchCollected \/ WriteRow
    \/ RunnerDone \/ KeyboardInterrupt
SpecRunner == InitRunner /\ [][NextRunner]_vars

InitSteps == StepsInit /\ ChainIdle /\ ClassifyIdle /\ PassIdle /\ RunnerIdle
NextSteps == StatusStep \/ StatusRow \/ SaveSteps
SpecSteps == InitSteps /\ [][NextSteps]_vars

(***************************************************************************)
(* Claims about the chain reconstruction (checked under SpecChain).        *)
(***************************************************************************)
NoDup(c) == \A p, q \in 1..Len(c) : c[p] = c[q] => p = q

\* C1: for every edge table (cycles and self-loops included) and every
\* assignment of existing artifacts, a chain returned by get_derivation_chain
\* contains no id more than once.
C1_NoIdTwice == \A p \in 1..Len(all_chains) : NoDup(all_chains[p])

\* C2: after the containment filter, for any two different chains C and D of
\* the final chain set, set(C) is not a subset of set(D) and set(D) is not a
\* subset of set(C).
C2_MaximalChains ==
    cpc \in {"write", "done"} =>
        \A p, q \in 1..Len(longest_chains) :
            p # q => ~(SetOf(longest_chains[p]) \subseteq SetOf(longest_chains[q]))

\* C2 witness: the filter ran, removed a chain and kept at least two.
C2_Witness ==
    /\ cpc = "done"
    /\ Len(longest_chains) >= 2
    /\ Len(longest_chains) < Len(all_chains)

\* The real ancestors of s: the parents reached from s, up to a row without a
\* parent (the sentinel or the empty text) or an id without a row.
RECURSIVE ReachN(_, _)
ReachN(s, n) ==
    IF n = 0 \/ s \notin DOMAIN derivation_map \/ derivation_map[s] \notin Ids
    THEN {}
    ELSE {derivation_map[s]} \cup ReachN(derivation_map[s], n - 1)

Acyclic == \A s \in DOMAIN derivation_map : s \notin ReachN(s, MaxId + 1)

RECURSIVE Ancestors(_)
Ancestors(s) ==
    IF s \notin DOMAIN derivation_map \/ derivation_map[s] \notin Ids
    THEN <<>>
    ELSE <<derivation_map[s]>> \o Ancestors(derivation_map[s])

ExpectedChain(s) == <<s>> \o SelectSeq(Ancestors(s), FileExists)

\* C3: for an acyclic edge table, the chain built for start id s is s followed
\* by the ancestors of s in parent order, with exactly those ancestors left out
\* whose artifact file is missing.
C3_ChainIsExistingAncestors ==
    Acyclic =>
        \A p \in 1..Len(all_chains) : all_chains[p] = ExpectedChain(Rows[p])

\* The same statement over the tables in which no row has the sentinel as its
\* parent; it holds (the scenario {1:0, 2:1, 3:2} with artifact 2 missing is
\* among these tables and gives [3, 1, 0]).
ChainIsExistingAncestorsWithoutSentinel ==
    (Acyclic /\ \A s \in DOMAIN derivation_map : derivation_map[s] # NaN) =>
        \A p \in 1..Len(all_chains) : all_chains[p] = ExpectedChain(Rows[p])

ScenarioMissingAncestorReached ==
    /\ derivation_map = (1 :> 0 @@ 2 :> 1 @@ 3 :> 2)
    /\ artifacts = {0, 1, 3}
    /\ Len(all_chains) = 3
    /\ all_chains[3] = <<3, 1, 0>>

(***************************************************************************)
(* Claims about the classifier (checked under SpecClassify).               *)
(***************************************************************************)
\* The outcome of a query as its caller sees it through equality with the
\* texts "sat" and "unsat".
IsText(run, t) == run.kind = "completed" /\ run.stdout = <<t>>

BothReadable == readable["A"] /\ readable["B"]

\* The decision table for the call whose first query is q1 and second q2.
TableHolds(l, q1, q2) ==
    /\ l = "equivalent" <=> (IsText(q1, "unsat") /\ IsText(q2, "unsat"))
    /\ l = "incomparable" <=> (IsText(q1, "sat") /\ IsText(q2, "sat"))
    /\ l = "s1_refines_s2" <=> (IsText(q1, "unsat") /\ IsText(q2, "sat"))
    /\ l = "s2_refines_s1" <=> (IsText(q1, "sat") /\ IsText(q2, "unsat"))
    /\ l \in {"equivalent", "incomparable", "s1_refines_s2", "s2_refines_s1", "unknown"}

\* C4: check_semantic_comparison maps the outcomes (Q1, Q2) of its two queries
\* to a label by the table (unsat, unsat) -> equivalent, (sat, sat) ->
\* incomparable, (unsat, sat) -> s1_refines_s2, (sat, unsat) -> s2_refines_s1,
\* and every other combination of two completed queries -> unknown.
C4_DecisionTable ==
    BothReadable =>
        /\ label["AB"] # "none" => TableHolds(label["AB"], answer["AB"], answer["BA"])
        /\ label["BA"] # "none" => TableHolds(label["BA"], answer["BA"], answer["AB"])

\* C4 witness: a refinement was reported from (unsat, sat).
C4_Witness ==
    /\ label["AB"] = "s1_refines_s2"
    /\ IsText(answer["AB"], "unsat")
    /\ IsText(answer["BA"], "sat")

\* C5: with an oracle that answers the same formula the same way,
\* check_semantic_comparison(A, B) and check_semantic_comparison(B, A) are
\* inverse-consistent: s1_refines_s2 for one order exactly when s2_refines_s1
\* for the other, and equivalent and incomparable in both orders or in none.
C5_InverseConsistent ==
    (label["AB"] # "none" /\ label["BA"] # "none") =>
        /\ label["AB"] = "s1_refines_s2" <=> label["BA"] = "s2_refines_s1"
        /\ label["BA"] = "s1_refines_s2" <=> label["AB"] = "s2_refines_s1"
        /\ label["AB"] = "equivalent" <=> label["BA"] = "equivalent"
        /\ label["AB"] = "incomparable" <=> label["BA"] = "incomparable"

\* C5 witness: both orders were classified and one is a refinement.
C5_Witness ==
    /\ label["AB"] = "s1_refines_s2"
    /\ label["BA"] = "s2_refines_s1"

\* C8: if a script cannot be read or parsed, or either query fails (the solver
\* cannot be started or the exchange raises), the label is the error label,
\* never unknown and never a relation label.
C8_ErrorLabelOnFailure ==
    \A f \in {"AB", "BA"} :
        (/\ label[f] # "none"
         /\ \/ ~BothReadable
            \/ answer["AB"].kind = "raises"
            \/ answer["BA"].kind = "raises")
        => label[f] = "Z3_ERROR"

(***************************************************************************)
(* Claims about the passes over the chain list (checked under SpecPass).   *)
(***************************************************************************)
PairIn(p) == \E m \in 1..Len(pairs) : pairs[m] = p

\* The chain [a, b, c, d] is being processed by the pass for "equivalent".
InChainOfFour ==
    /\ pass = "equivalent"
    /\ Len(chain) = 4
    /\ ppc \in {"pair", "scan", "direct", "append"}

\* The pass is in, or has just left, the body of the j loop for (a, d).
AtPairAD ==
    \/ pi = 0 /\ pj = 3 /\ ppc \in {"scan", "direct"}
    \/ pi = 1 /\ pj = 3 /\ ppc = "pair"

\* C6 as stated: in the pass for "equivalent" over a chain [a, b, c, d] with
\* classify(a, c) = equivalent (the pair (a, c) was counted), the pair (a, d)
\* is skipped, that is never classified directly and never counted, whatever
\* the labels of (a, b) and (b, c).
C6_SkippedWhenACEquivalent ==
    (InChainOfFour /\ PairIn(<<0, 2>>)) =>
        /\ ~PairIn(<<0, 3>>)
        /\ ~(ppc = "direct" /\ pi = 0 /\ pj = 3)
        /\ ~(last.kind = "direct" /\ last.i = 0 /\ last.j = 3)

\* C6 amended: in the pass for "equivalent" over a chain [a, b, c, d] the pair
\* (a, d) is skipped, never classified directly and never counted, when the
\* scan of its adjacent pairs found classify(a, b) = equivalent or
\* classify(b, c) = equivalent; and whenever (a, d) is classified directly,
\* both (a, b) and (b, c) were classified and neither was equivalent.
C6_SkippedWhenAdjacentEquivalent ==
    (InChainOfFour /\ AtPairAD) =>
        /\ (\E m \in 1..Len(inter_results) : inter_results[m] = "equivalent") =>
              /\ ppc = "pair"
              /\ skip
              /\ last.kind # "direct"
              /\ ~PairIn(<<0, 3>>)
        /\ (ppc = "direct" \/ (last.kind = "direct" /\ last.i = 0 /\ last.j = 3)) =>
              /\ Len(inter_results) = 2
              /\ inter_results[1] # "equivalent"
              /\ inter_results[2] # "equivalent"

\* C6 witness: (a, c) was counted as equivalent, the scan for (a, d) found
\* (b, c) equivalent after (a, b) was not, and the pass went on to (b, d)
\* without classifying (a, d).
C6_Witness ==
    /\ InChainOfFour
    /\ pi = 1 /\ pj = 3 /\ ppc = "pair"
    /\ PairIn(<<0, 2>>)
    /\ inter_results = <<"incomparable", "equivalent">>
    /\ last.kind = "inter" /\ last.i = 0 /\ last.j = 3
    /\ ~PairIn(<<0, 3>>)

\* Where the pass stands after the body of the j loop for the candidate (i, j).
AfterCandidate(i, j) ==
    LET nc == NextCandidate(Len(chain), i, j)
    IN IF nc = <<>> THEN ppc = "append" ELSE ppc = "pair" /\ <<pi, pj>> = nc

\* C7: when the oracle times out on a pair, the call returns a label that is
\* none of the four target labels, the pair is not counted, the run is not
\* aborted, and the scan goes on to the next pair.
C7_TimeoutNotCounted ==
    last.timeout =>
        /\ ppc # "aborted"
        /\ last.label \notin TargetLabels
        /\ (pass \in TargetLabels /\ last.kind = "direct") =>
              /\ ~PairIn(<<last.i, last.j>>)
              /\ AfterCandidate(last.i, last.j)
        /\ (pass \in TargetLabels /\ last.kind = "inter") =>
              /\ ~PairIn(<<last.i, last.j>>)
              /\ ppc \in {"scan", "direct"}
              /\ pi = last.i /\ pj = last.j /\ pk = last.y + 1
        /\ pass = "consecutive" =>
              /\ sem_results[Len(sem_results)] = last.label
              /\ pi = last.y
              /\ ppc = (IF last.y < Len(chain) - 1 THEN "pair" ELSE "append")

\* C7 witness: the direct comparison of a candidate that is not the last one
\* of its chain timed out, and an earlier pair of the chain was counted.
C7_Witness ==
    /\ pass \in TargetLabels
    /\ last.kind = "direct"
    /\ last.timeout
    /\ ppc = "pair"
    /\ Len(pairs) >= 1

\* C9: with an oracle that may fail or time out on any call, every pass
\* reaches the end of its input having visited every chain: no failure on one
\* pair or one chain stops the scan of the later pairs and chains.
C9_PassReachesEnd == <>(ppc = "done" /\ ci = nrows /\ Len(csv) = Len(results))

\* C9 witness: the consecutive pass is over all its chains, and the first
\* chain had a comparison that failed before the solver and the second one a
\* comparison without a usable answer.
C9_Witness ==
    /\ ppc = "done"
    /\ pass = "consecutive"
    /\ nrows = NChains
    /\ ci = nrows
    /\ Len(results) = nrows
    /\ \E m \in 1..Len(results[1].semantic_compare) :
          results[1].semantic_compare[m] = "Z3_ERROR"
    /\ \E m \in 1..Len(results[nrows].semantic_compare) :
          results[nrows].semantic_compare[m] = "unknown"

\* C10: in a non-consecutive pass the results are persisted after every
\* FlushEvery comparisons, and the file written then reflects all comparisons
\* completed so far, those of the chain in progress included: it has the row
\* of that chain with its count and pairs.
C10_FlushReflectsCompleted ==
    (pass \in TargetLabels /\ last.kind = "direct" /\ ppc # "aborted"
        /\ SaveDue(write_counter)) =>
        \E m \in 1..Len(csv) :
            /\ csv[m].id = ci + 1
            /\ csv[m].count = count
            /\ csv[m].pairs = pairs

\* What the intermediate save of a non-consecutive pass does write: the rows
\* of the chains before the one in progress, and nothing of that one.
FlushHoldsEarlierChains ==
    (pass \in TargetLabels /\ last.kind = "direct" /\ ppc # "aborted"
        /\ SaveDue(write_counter)) =>
        /\ csv = results
        /\ \A m \in 1..Len(csv) : csv[m].id # ci + 1

\* A save left out the pairs counted in the chain in progress.
FlushLostCountedPairs ==
    /\ pass \in TargetLabels
    /\ last.kind = "direct"
    /\ SaveDue(write_counter)
    /\ count >= 1
    /\ csv = <<>>

IsPrefix(s, t) == Len(s) <= Len(t) /\ \A m \in 1..Len(s) : s[m] = t[m]

\* C11: at every point of the consecutive pass and of each non-consecutive
\* pass, the rows last written to the output file are a prefix of the rows
\* written at the end of the run: the rows in memory only grow at their end,
\* every save writes a prefix of them, and the final save writes them all.
C11_CheckpointIsPrefix ==
    [][/\ IsPrefix(results, results')
       /\ IsPrefix(csv', results')
       /\ ppc' = "done" => csv' = results']_vars

\* C11 witness: a non-consecutive pass saved the row of its first chain while
\* in its second chain, whose row has been appended since.
C11_Witness ==
    /\ pass \in TargetLabels
    /\ ppc = "chain"
    /\ Len(csv) = 1
    /\ Len(results) = 2
    /\ results[2].count >= 1

\* C12: in all five passes no call of the classifier, hence no oracle query,
\* is made for a comparison in which one of the two scripts has a check record
\* with ERROR, be it an endpoint of a candidate pair or a member of an
\* adjacent pair of the scan; a candidate with such an endpoint is not counted.
C12_NoQueryOnErrorScript ==
    /\ last.kind # "none" =>
          /\ chain[last.x + 1] \notin check_err
          /\ chain[last.y + 1] \notin check_err
          /\ chain[last.i + 1] \notin check_err
          /\ chain[last.j + 1] \notin check_err
    /\ ppc \in {"scan", "direct"} =>
          /\ chain[pi + 1] \notin check_err
          /\ chain[pj + 1] \notin check_err
    /\ ppc \in {"pair", "scan", "direct", "append"} =>
          \A m \in 1..Len(pairs) :
              /\ chain[pairs[m][1] + 1] \notin check_err
              /\ chain[pairs[m][2] + 1] \notin check_err

\* C12 witness: in a chain of four whose last script has an ERROR record, the
\* pair of the first and third script was compared and counted.
C12_Witness ==
    /\ pass \in TargetLabels
    /\ Len(chain) = 4
    /\ check_err = {4}
    /\ ppc = "append"
    /\ pairs = <<<<0, 2>>>>

(***************************************************************************)
(* Claims about script_runner (checked under SpecRunner).                  *)
(***************************************************************************)
\* The batch a file belongs to (the files are 1..n in list order).
BatchOf(f) == (f - 1) \div BatchSize

\* The CSV holds the header and one complete row for each file of fs.
HoldsExactly(fs) ==
    /\ Len(output_csv) = 1 + Cardinality(fs)
    /\ output_csv[1] = Header
    /\ \A f \in fs : \E q \in 2..Len(output_csv) : output_csv[q] = Row(f)

\* C13: for every order in which the workers complete, a full run in which
\* every worker completes leaves in the CSV the header and exactly one row per
\* input file, the row of a file is the one its worker returned whatever the
\* order, and the rows of an earlier batch precede those of a later batch.
C13_OneRowPerFile ==
    (rpc = "done" /\ \A f \in DOMAIN worker : worker[f] # "died") =>
        /\ HoldsExactly(DOMAIN worker)
        /\ \A q, r \in 2..Len(output_csv) :
              q < r => BatchOf(output_csv[q].file) <= BatchOf(output_csv[r].file)

\* C13 witness: two batches, in each of which the second file completed first,
\* written over the file of an earlier run.
C13_Witness ==
    /\ rpc = "done"
    /\ Len(smt_files) = 4
    /\ \A f \in DOMAIN worker : worker[f] # "died"
    /\ Len(output_csv) = 5
    /\ output_csv[2].file = 2 /\ output_csv[3].file = 1
    /\ output_csv[4].file = 4 /\ output_csv[5].file = 3

\* The files of the batches whose loop iteration was over at the interrupt and
\* whose worker returned a result.
FinishedFiles == {f \in DOMAIN worker : f <= bi /\ worker[f] # "died"}

\* The files of the batch being written whose row write_to_csv got to.
PartFiles == {batch_results[m].file : m \in 1..wi} \ (1..bi)

C15_SelfLoopSingleton ==
    \A p \in 1..Len(all_chains) :
        derivation_map[Rows[p]] = Rows[p] => all_chains[p] = <<Rows[p]>>

InLongest(c) == \E m \in 1..Len(longest_chains) : longest_chains[m] = c

\* C16: when two chains of the built list have identical id-sets but are
\* different sequences, both survive the containment filter.
C16_TiesSurvive ==
    cpc \in {"write", "done"} =>
        \A p, q \in 1..Len(all_chains) :
            (SetOf(all_chains[p]) = SetOf(all_chains[q]) /\ all_chains[p] # all_chains[q])
            => (InLongest(all_chains[p]) /\ InLongest(all_chains[q]))

AnswerTokens == {"sat", "unsat", "unknown"}

\* The first line of the output that is one of sat, unsat, unknown; "none"
\* when no line is.
FirstToken(out) ==
    LET at == {m \in 1..Len(out) : out[m] \in AnswerTokens}
    IN IF at = {} THEN "none"
       ELSE out[CHOOSE m \in at : \A o \in at : m <= o]

\* What the if/elif chain of the classification takes a result text for.
TakenFor(r) ==
    IF r = <<"sat">> THEN "sat" ELSE IF r = <<"unsat">> THEN "unsat" ELSE "unknown"

\* C18: for every output of a solver process that completes in time, the
\* outcome that check_z3_smt2 hands to the classification is the first token
\* among sat, unsat and unknown found in the output, whatever other text the
\* output holds, and is unknown when the output holds no such token and no
\* error marker.
C18_FirstTokenHanded ==
    \A f \in {"AB", "BA"} :
        (BothReadable /\ label[f] # "none" /\ answer[f].kind = "completed") =>
            LET out == answer[f].stdout
                handed == TakenFor(check_z3_smt2(answer[f]))
            IN /\ FirstToken(out) # "none" => handed = FirstToken(out)
               /\ (FirstToken(out) = "none" /\ \A m \in 1..Len(out) : out[m] # "error")
                     => handed = "unknown"

\* The same statement over the outputs of at most one line; it holds.
FirstTokenHandedOnOneLine ==
    \A f \in {"AB", "BA"} :
        (BothReadable /\ label[f] # "none" /\ answer[f].kind = "completed"
            /\ Len(answer[f].stdout) <= 1) =>
            LET out == answer[f].stdout
                handed == TakenFor(check_z3_smt2(answer[f]))
            IN /\ FirstToken(out) # "none" => handed = FirstToken(out)
               /\ FirstToken(out) = "none" => handed = "unknown"

(***************************************************************************)
(* Further claims about the non-consecutive passes (checked under          *)
(* SpecPass).                                                              *)
(***************************************************************************)
\* C19 as stated, in its case k = j: in the pass for target label L, a
\* candidate (i, j) is skipped, not classified directly and not counted,
\* whenever the adjacent pair (j - 1, j) inside its span has label L.
C19_SkippedWhenAdjacentInSpanHasLabel ==
    (pass \in TargetLabels /\ last.kind = "inter" /\ last.label = pass) =>
        \A m \in 1..Len(pairs) : pairs[m][2] # last.y

AllOtherThanTarget(rs) == \A m \in 1..Len(rs) : rs[m] # pass

\* C19 amended: in the pass for target label L, a candidate (i, j) is
\* skipped, not classified directly and not counted, whenever the scan finds
\* label L on an adjacent pair (k - 1, k) with i < k < j; the pair (j - 1, j)
\* is not scanned.  A candidate is classified directly only after all its
\* j - i - 1 scanned pairs were classified with another label.
C19_SkippedWhenScannedPairHasLabel ==
    pass \in TargetLabels =>
        /\ (last.kind = "inter" /\ last.label = pass) =>
              /\ last.i < last.y /\ last.y < last.j
              /\ skip
              /\ ~PairIn(<<last.i, last.j>>)
              /\ AfterCandidate(last.i, last.j)
        /\ ppc = "direct" =>
              /\ Len(inter_results) = pj - pi - 1
              /\ AllOtherThanTarget(inter_results)
        /\ last.kind = "direct" =>
              /\ Len(inter_results) = last.j - last.i - 1
              /\ AllOtherThanTarget(inter_results)

\* C19 witness: in the pass for "incomparable" over a chain of four, the scan
\* for (0, 3) found (1, 2) incomparable and the pass went on to (1, 3).
C19_Witness ==
    /\ pass = "incomparable"
    /\ Len(chain) = 4
    /\ last.kind = "inter" /\ last.label = "incomparable"
    /\ last.i = 0 /\ last.j = 3 /\ last.x = 1 /\ last.y = 2
    /\ skip
    /\ ppc = "pair" /\ pi = 1 /\ pj = 3

\* The index pairs (i, j) of a chain of n elements with j >= i + 2.
Cands(n) == {c \in (0..(n - 1)) \X (0..(n - 1)) : c[2] >= c[1] + 2}

LexLess(a, b) == a[1] < b[1] \/ (a[1] = b[1] /\ a[2] < b[2])

IsFirstCand(n, b) == b \in Cands(n) /\ \A c \in Cands(n) : c = b \/ LexLess(b, c)

IsLastCand(n, a) == a \in Cands(n) /\ \A c \in Cands(n) : c = a \/ LexLess(c, a)

IsNextCand(n, a, b) ==
    /\ b \in Cands(n)
    /\ LexLess(a, b)
    /\ ~\E c \in Cands(n) : LexLess(a, c) /\ LexLess(c, b)

InBody(pc) == pc \in {"pair", "scan", "direct"}

\* C20: in each non-consecutive pass every recorded pair (i, j) of a chain of
\* n elements has 0 <= i, j < n and j >= i + 2; every such index pair is
\* considered as a candidate exactly once, in increasing order of i and then
\* of j (the pass starts at the first, goes from each to its successor and
\* leaves the loops after the last); a chain of fewer than 3 elements gets no
\* candidate, no oracle query and no output row.
C20_CandidatesOnceInOrder ==
    [][pass' \in TargetLabels =>
          /\ \A m \in 1..Len(pairs') :
                /\ pairs'[m] \in Cands(Len(chain'))
                /\ m > 1 => LexLess(pairs'[m - 1], pairs'[m])
          /\ (ppc = "chain" /\ ppc' = "pair") =>
                (Len(chain') >= 3 /\ IsFirstCand(Len(chain'), <<pi', pj'>>))
          /\ (InBody(ppc) /\ ppc' = "pair") =>
                IsNextCand(Len(chain), <<pi, pj>>, <<pi', pj'>>)
          /\ (InBody(ppc) /\ ppc' \in {"scan", "direct"}) =>
                (pi' = pi /\ pj' = pj)
          /\ (InBody(ppc) /\ ppc' = "append") =>
                IsLastCand(Len(chain), <<pi, pj>>)
          /\ (ppc = "chain" /\ ppc' = "chain") =>
                /\ Len(chain') < 3
                /\ results' = results
                /\ write_counter' = write_counter
                /\ last' = NoCall
          /\ last'.kind # "none" =>
                <<last'.i, last'.j>> \in Cands(Len(chain'))]_vars

\* C20 witness: all three candidates of a chain of four were classified
\* directly and recorded, after a chain of fewer than 3 scripts that left no
\* row.
C20_Witness ==
    /\ pass \in TargetLabels
    /\ ci = 1
    /\ results = <<>>
    /\ Len(chain) = 4
    /\ ppc = "append"
    /\ pairs = <<<<0, 2>>, <<0, 3>>, <<1, 3>>>>

\* A script whose artifact is missing or whose check record holds ERROR.
Unusable(x) == x \notin present \/ x \in check_err

\* Some script strictly between positions i and j of the chain is unusable.
UnusableBetween(i, j) == \E m \in (i + 1)..(j - 1) : Unusable(chain[m + 1])

\* C21: in each non-consecutive pass, if a script strictly between positions
\* i and j has a missing artifact or a check record with ERROR, the candidate
\* (i, j) is skipped: the scan stops, with skip set and without classifying,
\* at the first adjacent pair holding such a script, and (i, j) is neither
\* classified directly nor counted.
C21_SkippedOnUnusableIntermediate ==
    [][pass' \in TargetLabels =>
          /\ (ppc = "scan" /\ (Unusable(chain[pk]) \/ Unusable(chain[pk + 1]))) =>
                /\ skip'
                /\ last' = NoCall
                /\ inter_results' = inter_results
                /\ pairs' = pairs /\ count' = count
                /\ ppc' \in {"pair", "append"}
                /\ ppc' = "pair" => <<pi', pj'>> # <<pi, pj>>
          /\ ppc' = "direct" => ~UnusableBetween(pi', pj')
          /\ last'.kind = "direct" => ~UnusableBetween(last'.i, last'.j)
          /\ InBody(ppc') =>
                \A m \in 1..Len(pairs') : ~UnusableBetween(pairs'[m][1], pairs'[m][2])]_vars

\* C21 witness: in a chain of four whose third script has no artifact, the
\* scan for (0, 3) classified (0, 1), stopped at (1, 2), and the pass is at
\* (1, 3) with skip set.
C21_Witness ==
    /\ pass \in TargetLabels
    /\ Len(chain) = 4
    /\ present = {1, 2, 4}
    /\ check_err = {}
    /\ ppc = "pair" /\ pi = 1 /\ pj = 3
    /\ skip
    /\ Len(inter_results) = 1
    /\ last = NoCall

\* C22: in the pass for target label L, the adjacent pairs (k-1, k) for k
\* from i+1 to j-1 are classified in increasing order of k; at the first one
\* whose label is L the scan stops and (i, j) is skipped; the direct
\* classification of (i, j) is issued only after all of them were classified
\* with a label other than L.
C22_ScanInOrderThenDirect ==
    pass \in TargetLabels =>
        /\ ppc = "scan" =>
              /\ pi < pk /\ pk < pj
              /\ Len(inter_results) = pk - pi - 1
              /\ AllOtherThanTarget(inter_results)
        /\ last.kind = "inter" =>
              /\ last.x = last.i + Len(inter_results) - 1
              /\ last.y = last.x + 1
              /\ last.y < last.j
              /\ inter_results[Len(inter_results)] = last.label
              /\ AllOtherThanTarget(SubSeq(inter_results, 1, Len(inter_results) - 1))
              /\ IF last.label = pass
                 THEN skip /\ AfterCandidate(last.i, last.j)
                 ELSE /\ pi = last.i /\ pj = last.j /\ pk = last.y + 1
                      /\ ppc = (IF pk < pj THEN "scan" ELSE "direct")
        /\ ppc = "direct" =>
              /\ pk = pj
              /\ ~skip
              /\ Len(inter_results) = pj - pi - 1
              /\ AllOtherThanTarget(inter_results)

\* C22 witness: the pass is about to classify (0, 3) directly, after (0, 1)
\* and then (1, 2) were classified, both with another label than L.
C22_Witness ==
    /\ pass = "s1_refines_s2"
    /\ ppc = "direct" /\ pi = 0 /\ pj = 3
    /\ last.kind = "inter" /\ last.x = 1 /\ last.y = 2
    /\ inter_results = <<"equivalent", "s2_refines_s1">>

\* C23: in every non-consecutive pass count equals the number of entries of
\* the pair list, the list has no duplicate, a pair enters the list only as
\* the candidate that was not skipped and whose direct classification has
\* just returned L, every candidate whose direct classification returns L
\* enters it, and the output row of the chain holds that count and list.
C23_CountMatchesPairs ==
    [][pass' \in TargetLabels =>
          /\ count' = Len(pairs')
          /\ NoDup(pairs')
          /\ pairs' # pairs =>
                \/ ppc = "chain" /\ pairs' = <<>>
                \/ /\ ppc = "direct"
                   /\ ~skip
                   /\ pairs' = Append(pairs, <<pi, pj>>)
                   /\ last'.kind = "direct"
                   /\ last'.i = pi /\ last'.j = pj
                   /\ last'.label = pass
          /\ (last'.kind = "direct" /\ last' # last) =>
                (last'.label = pass <=> pairs' = Append(pairs, <<last'.i, last'.j>>))
          /\ results' # results =>
                /\ ppc = "append"
                /\ results' = Append(results, [id |-> ci + 1, chain |-> chain,
                                               count |-> Len(pairs), pairs |-> pairs])]_vars

\* C23 witness: the row of a chain of four was written with two of its three
\* candidates, the third having been classified with another label.
C23_Witness ==
    /\ pass = "s2_refines_s1"
    /\ ppc = "chain"
    /\ Len(results) = 1
    /\ Len(results[1].chain) = 4
    /\ results[1].count = 2
    /\ results[1].pairs = <<<<0, 2>>, <<1, 3>>>>

(***************************************************************************)
(* Claims about the walk of get_derivation_chain (checked under SpecChain).*)
(***************************************************************************)
NKeys == Cardinality(DOMAIN derivation_map)

\* C24: for every edge table, with cycles and missing artifacts, the walk
\* from any start id ends after at most one loop iteration per key, so that
\* a chain has at most (number of keys + 1) elements; it stops when the
\* parent is empty, when the current id was already visited, or when the
\* current id is not a key of the table.
C24_WalkBounded ==
    \A p \in 1..Len(all_chains) :
        LET e == WalkEnd(0, Rows[p], {})
        IN /\ e.iterations <= NKeys
           /\ e.visited \subseteq DOMAIN derivation_map
           /\ e.iterations = Cardinality(e.visited)
           /\ Len(all_chains[p]) <= e.iterations + 1
           /\ Len(all_chains[p]) <= NKeys + 1
           /\ e.by = "break" => derivation_map[e.current] = Empty
           /\ e.by = "guard" =>
                 (e.current \in e.visited \/ e.current \notin DOMAIN derivation_map)

\* C24 witness: the walk from 1 went round a cycle over all three keys and
\* stopped on the visited id, with a chain of (number of keys + 1) elements.
C24_Witness ==
    /\ derivation_map = (1 :> 2 @@ 2 :> 3 @@ 3 :> 1)
    /\ Len(all_chains) >= 1
    /\ all_chains[1] = <<1, 2, 3, 1>>
    /\ WalkEnd(0, 1, {}).by = "guard"
    /\ WalkEnd(0, 1, {}).iterations = 3

(***************************************************************************)
(* Status chains and steps to fix.                                         *)
(***************************************************************************)
\* C25: create_status_chain_csv gives the chain a status_chain with exactly
\* one status per element of the chain, in chain order, each one of SAT,
\* UNSAT, ERROR, NO_CHECK, MULTIPLE_CHECKS, for every check record a script
\* can have (empty, one of sat, unsat, unknown, ERROR, or several outcomes).
C25_OneStatusPerElement ==
    \A m \in 1..Len(status_csv) :
        LET row == status_csv[m]
        IN /\ Len(row.status_chain) = Len(row.derivation_chain)
           /\ \A p \in 1..Len(row.status_chain) :
                 /\ row.status_chain[p] \in Statuses
                 /\ row.status_chain[p] =
                        StatusAppended(check_map[row.derivation_chain[p]])[1]

\* What does hold: one status per element whose record is not a single
\* outcome other than sat, unsat and ERROR.
OneStatusPerElementWithStatus ==
    \A m \in 1..Len(status_csv) :
        LET row == status_csv[m]
            kept == {p \in 1..Len(row.derivation_chain) :
                        StatusAppended(check_map[row.derivation_chain[p]]) # <<>>}
        IN /\ Len(row.status_chain) = Cardinality(kept)
           /\ \A p \in 1..Len(row.status_chain) : row.status_chain[p] \in Statuses

\* The indices (of the source, from 0) at which a maximal run of v starts.
RunStarts(sc, v) ==
    {a \in 0..(Len(sc) - 1) : sc[a + 1] = v /\ (a = 0 \/ sc[a] # v)}

\* The index of the last element of the maximal run of v that starts at a.
RunLast(sc, a, v) ==
    CHOOSE b \in a..(Len(sc) - 1) :
        /\ \A q \in a..b : sc[q + 1] = v
        /\ (b = Len(sc) - 1 \/ sc[b + 2] # v)

\* The ERROR runs that are followed by a non-ERROR status.
FixedErrorRuns(sc) ==
    {a \in RunStarts(sc, "ERROR") : RunLast(sc, a, "ERROR") < Len(sc) - 1}

ExpectedSyntaxSteps(sc) ==
    LET starts == RowsOf(FixedErrorRuns(sc))
    IN [q \in 1..Len(starts) |-> RunLast(sc, starts[q], "ERROR") - starts[q] + 1]

\* C26: calculate_syntaxerror_fix_steps returns, in chain order, one entry
\* per maximal run of ERROR statuses that is followed by a non-ERROR status,
\* the entry being the length of the run; a run that reaches the end of the
\* chain gives no entry.
C26_SyntaxStepsPerRun ==
    \A m \in 1..Len(fix_csv) :
        fix_csv[m].parseerror_fix_steps = ExpectedSyntaxSteps(fix_csv[m].status_chain)

\* C26 witness: a run of two ERROR statuses fixed after it, and a run that
\* reaches the end of the chain.
C26_Witness ==
    /\ fpc = "done"
    /\ Len(fix_csv) = 1
    /\ fix_csv[1].status_chain = <<"ERROR", "ERROR", "SAT", "ERROR">>
    /\ fix_csv[1].parseerror_fix_steps = <<2>>

\* The first SAT status after index b, or -1.
FirstSatAfter(sc, b) ==
    IF \E j \in (b + 1)..(Len(sc) - 1) : sc[j + 1] = "SAT"
    THEN CHOOSE j \in (b + 1)..(Len(sc) - 1) :
            /\ sc[j + 1] = "SAT"
            /\ \A q \in (b + 1)..(j - 1) : sc[q + 1] # "SAT"
    ELSE -1

\* The UNSAT runs after which a SAT status occurs.
RepairedUnsatRuns(sc) ==
    {a \in RunStarts(sc, "UNSAT") : FirstSatAfter(sc, RunLast(sc, a, "UNSAT")) >= 0}

ExpectedUnsatSteps(sc) ==
    LET starts == RowsOf(RepairedUnsatRuns(sc))
    IN [q \in 1..Len(starts) |->
           LET b == RunLast(sc, starts[q], "UNSAT")
           IN FirstSatAfter(sc, b) - b]

\* C27: calculate_unsat_to_sat_steps returns, in chain order, one entry per
\* maximal run of UNSAT statuses after which a SAT status occurs, the entry
\* being the distance from the last UNSAT of the run to the first later SAT
\* (at least 1); a run with no later SAT gives no entry.
C27_UnsatStepsPerRun ==
    \A m \in 1..Len(fix_csv) :
        LET steps == fix_csv[m].unsat_to_sat_steps
        IN /\ steps = ExpectedUnsatSteps(fix_csv[m].status_chain)
           /\ \A q \in 1..Len(steps) : steps[q] >= 1

\* C27 witness: a run of two UNSAT statuses, an ERROR stepped over, then SAT.
C27_Witness ==
    /\ fpc = "done"
    /\ Len(fix_csv) = 1
    /\ fix_csv[1].status_chain = <<"UNSAT", "UNSAT", "ERROR", "SAT">>
    /\ fix_csv[1].unsat_to_sat_steps = <<2>>

(***************************************************************************)
(* Further claims about the chains (checked under SpecChain).              *)
(***************************************************************************)
KeyInFinalChain(s) ==
    \E m \in 1..Len(longest_chains) : s \in SetOf(longest_chains[m])

\* C28: for every edge table and every artifact-existence assignment, each
\* id that is a key of the edge table appears in at least one chain of the
\* final chain set: the containment filter never removes the last chain that
\* holds an id.
C28_EveryKeyInFinalChain ==
    cpc \in {"write", "done"} =>
        \A s \in DOMAIN derivation_map : KeyInFinalChain(s)

NoTies ==
    \A p, q \in 1..Len(all_chains) :
        SetOf(all_chains[p]) = SetOf(all_chains[q]) => all_chains[p] = all_chains[q]

\* The same statement over the tables whose built chains have no two
\* different sequences with one id-set; it holds.
EveryKeyInFinalChainWithoutTies ==
    (cpc \in {"write", "done"} /\ NoTies) =>
        \A s \in DOMAIN derivation_map : KeyInFinalChain(s)

\* C29: every element of a chain produced by get_derivation_chain is the id
\* of a script whose artifact exists: the start id is at chain[0] only when
\* its own artifact exists, and the no-parent sentinel is never appended.
C29_ElementsHaveArtifacts ==
    \A p \in 1..Len(all_chains) : \A q \in 1..Len(all_chains[p]) :
        /\ FileExists(all_chains[p][q])
        /\ all_chains[p][q] # NaN

\* What does hold: every element after the first either has an artifact or
\* is the sentinel, and the sentinel can only be the last element.
LaterElementsExistOrSentinel ==
    \A p \in 1..Len(all_chains) : \A q \in 2..Len(all_chains[p]) :
        /\ FileExists(all_chains[p][q]) \/ all_chains[p][q] = NaN
        /\ all_chains[p][q] = NaN => q = Len(all_chains[p])

(***************************************************************************)
(* Further claim about the consecutive pass (checked under SpecPass).      *)
(***************************************************************************)
\* C30: for every chain of n >= 2 elements the consecutive pass writes a
\* semantic_compare list of exactly n - 1 entries, one per adjacent pair,
\* also when artifacts of the chain are missing or check records hold ERROR.
C30_OneEntryPerAdjacentPair ==
    (pass = "consecutive" /\ ppc = "append") =>
        Len(sem_results) = Len(chain) - 1

\* What does hold: one entry per adjacent pair that has an ERROR record or
\* both of whose files exist, and none for the other pairs.
OneEntryPerUsableAdjacentPair ==
    (pass = "consecutive" /\ ppc = "append") =>
        Len(sem_results) =
            Cardinality({m \in 1..(Len(chain) - 1) :
                            \/ HasError(chain[m]) \/ HasError(chain[m + 1])
                            \/ Exists(chain[m]) /\ Exists(chain[m + 1])})

====
